---- MODULE Spec2Model ----
(***************************************************************************)
(* A model of acl-utils: AclRule (the rectangle algebra over permissions   *)
(* and agents) and AclDoc (the store of rules keyed by subject id).        *)
(*                                                                         *)
(* A subject id is a JavaScript string, modelled as a sequence of tokens:  *)
(* a token is one decimal digit or one chunk of non-digit characters.      *)
(* this.rules is a JavaScript object, modelled as the sequence of its      *)
(* [id, rule] entries in property order, which is insertion order: no id   *)
(* used here is an integer-like key.                                       *)
(*                                                                         *)
(* last records the call that has just returned (its arguments, the store  *)
(* before it, its outcome and the deleteBySubject calls it made); a call   *)
(* is made only after the caller has left the previous record (Forget).    *)
(***************************************************************************)
EXTENDS Integers, Sequences, FiniteSets, TLC

VARIABLES rules, defaultAccessTo, last

vars == <<rules, defaultAccessTo, last>>

(* ---------------- bounds and input domains ---------------- *)

\* addRule is offered only if it overwrites an entry or leaves a store of at
\* most this many entries
MaxRules == 2

\* a delete operation is offered only if the store it leaves holds at most
\* this many entries (splitting grows the store)
MaxEntries == 3

\* an operation is offered only if no subject id of the store it leaves ends
\* in a number above this (generated ids count upwards without limit)
MaxIndex == 2

Perms == {"read", "write"}
AgentIds == {"A", "B"}

\* JavaScript undefined
None == "undefined"

NoQuads == <<>>
SomeQuads == <<"q1">>

(* ---------------- Permissions / Agents (set algebra) ---------------- *)

PermissionsFrom(p) == p
AgentsFrom(a) == a
IsEmpty(s) == s = {}
Includes(s, other) == other \subseteq s
PermissionsSubtract(a, b) == a \ b
PermissionsCommon(a, b) == a \cap b
AgentsSubtract(a, b) == a \ b
PermissionsMerge(a, b) == a \cup b
AgentsMerge(a, b) == a \cup b
\* Permissions.ALL: every permission of the vocabulary
PermissionsALL == Perms
AgentsCommon(a, b) == a \cap b

(* ---------------- AclRule ---------------- *)

\* options = {}: an undefined otherQuads is read as [] by the constructor
NoOptions == [otherQuads |-> <<>>, default |-> None, defaultForNew |-> None]

\* constructor: accessTo and otherQuads are copied (accessTo is always passed
\* as an array here)
AclRule(permissions, agents, accessTo, options) ==
  [ permissions   |-> PermissionsFrom(permissions),
    agents        |-> AgentsFrom(agents),
    accessTo      |-> accessTo,
    otherQuads    |-> options.otherQuads,
    default       |-> options.default,
    defaultForNew |-> options.defaultForNew ]

\* _getOptions copying the other quads only
getOptionsWithoutFlags(rule) ==
  [ otherQuads    |-> rule.otherQuads,
    default       |-> None,
    defaultForNew |-> None ]

getOptions(rule) ==
  [ otherQuads    |-> rule.otherQuads,
    default       |-> rule.default,
    defaultForNew |-> rule.defaultForNew ]

clone(rule) == AclRule(rule.permissions, rule.agents, rule.accessTo, getOptions(rule))

hasNoEffect(rule) ==
  Len(rule.otherQuads) = 0 /\
    ( IsEmpty(rule.permissions) \/ IsEmpty(rule.agents) \/ Len(rule.accessTo) = 0 )

\* the value passed as firstVal is either an AclRule or a permissions value
IsAclRule(v) == DOMAIN v = {"permissions", "agents", "accessTo", "otherQuads", "default", "defaultForNew"}

\* a permissions value handed over as firstVal
PermsArg(p) == [perms |-> p]

from(firstVal, agents, accessTo) ==
  IF IsAclRule(firstVal)
    THEN clone(firstVal)
    ELSE AclRule(firstVal.perms, agents, accessTo, NoOptions)

\* common with the permissions merged instead of intersected
commonMergesPermissions(first, second) ==
  AclRule(PermissionsMerge(first.permissions, second.permissions),
          AgentsCommon(first.agents, second.agents), first.accessTo, getOptions(first))

common(first, second) ==
  LET permissions == PermissionsCommon(first.permissions, second.permissions)
      agents == AgentsCommon(first.agents, second.agents)
      accessTo == SelectSeq(first.accessTo,
                            LAMBDA val : \E i \in 1..Len(second.accessTo) : second.accessTo[i] = val)
      options ==
        [ otherQuads    |-> SelectSeq(first.otherQuads,
                              LAMBDA quad : \E i \in 1..Len(second.otherQuads) : second.otherQuads[i] = quad),
          default       |-> IF first.default = second.default THEN first.default ELSE None,
          defaultForNew |-> IF first.defaultForNew = second.defaultForNew
                              THEN first.defaultForNew ELSE None ]
  IN  AclRule(permissions, agents, accessTo, options)

\* subtract with the second piece given to the agents of both rules
subtractMergesAgents(first, second) ==
  LET firstOptions == getOptions(first)
      unaffectedAgents == AgentsSubtract(first.agents, second.agents)
      unaffectedPermissions == PermissionsSubtract(first.permissions, second.permissions)
      mergedAgents == AgentsMerge(first.agents, second.agents)
      pushed == << AclRule(first.permissions, unaffectedAgents, first.accessTo, firstOptions),
                   AclRule(unaffectedPermissions, mergedAgents, first.accessTo, firstOptions) >>
  IN  SelectSeq(pushed, LAMBDA rule : ~hasNoEffect(rule))

\* subtract returning both pieces, whatever they grant
subtractUnfiltered(first, second) ==
  << AclRule(first.permissions, AgentsSubtract(first.agents, second.agents),
             first.accessTo, getOptions(first)),
     AclRule(PermissionsSubtract(first.permissions, second.permissions),
             AgentsCommon(first.agents, second.agents), first.accessTo, getOptions(first)) >>

\* subtract with the second piece keeping all of first's permissions
subtractKeepsPermissions(first, second) ==
  LET firstOptions == getOptions(first)
      unaffectedAgents == AgentsSubtract(first.agents, second.agents)
      commonAgents == AgentsCommon(first.agents, second.agents)
      pushed == << AclRule(first.permissions, unaffectedAgents, first.accessTo, firstOptions),
                   AclRule(first.permissions, commonAgents, first.accessTo, firstOptions) >>
  IN  SelectSeq(pushed, LAMBDA rule : ~hasNoEffect(rule))

subtract(first, second) ==
  LET firstOptions == getOptions(first)
      unaffectedAgents == AgentsSubtract(first.agents, second.agents)
      unaffectedPermissions == PermissionsSubtract(first.permissions, second.permissions)
      commonAgents == AgentsCommon(first.agents, second.agents)
      pushed == << AclRule(first.permissions, unaffectedAgents, first.accessTo, firstOptions),
                   AclRule(unaffectedPermissions, commonAgents, first.accessTo, firstOptions) >>
  IN  SelectSeq(pushed, LAMBDA rule : ~hasNoEffect(rule))

(* ---------------- subject ids (strings) ---------------- *)

Digits == <<"0", "1", "2", "3", "4", "5", "6", "7", "8", "9">>

IsDigit(t) == \E i \in 1..10 : Digits[i] = t
DigitValue(t) == CHOOSE n \in 0..9 : Digits[n + 1] = t

RECURSIVE TrailingDigitCount(_)
\* length of the match of /[\d]*$/
TrailingDigitCount(s) ==
  IF Len(s) = 0 \/ ~IsDigit(s[Len(s)])
    THEN 0
    ELSE 1 + TrailingDigitCount(SubSeq(s, 1, Len(s) - 1))

\* base.match(/[\d]*$/)[0]
TrailingDigits(s) == SubSeq(s, Len(s) - TrailingDigitCount(s) + 1, Len(s))

\* base.replace(/[\d]*$/, '')
StripTrailingDigits(s) == SubSeq(s, 1, Len(s) - TrailingDigitCount(s))

RECURSIVE Number(_)
\* Number(digits): the decimal value, 0 for the empty string
Number(ds) ==
  IF Len(ds) = 0 THEN 0
  ELSE 10 * Number(SubSeq(ds, 1, Len(ds) - 1)) + DigitValue(ds[Len(ds)])

RECURSIVE NumberToString(_)
\* the decimal numeral of a number, as in base + index
NumberToString(n) ==
  IF n < 10 THEN << Digits[n + 1] >>
  ELSE NumberToString(n \div 10) \o << Digits[(n % 10) + 1] >>

\* the default parameter of _getNewSubjectId
DefaultBase == << "new-acl-rule-", "1" >>

(* ---------------- this.rules (a JavaScript object) ---------------- *)

Keys(rs) == [i \in 1..Len(rs) |-> rs[i].id]
KeySet(rs) == {rs[i].id : i \in 1..Len(rs)}
hasOwnProperty(rs, id) == \E i \in 1..Len(rs) : rs[i].id = id
Get(rs, id) == rs[CHOOSE i \in 1..Len(rs) : rs[i].id = id].rule

\* rs[id] = rule: an existing key keeps its place, a new key goes last
Put(rs, id, rule) ==
  IF hasOwnProperty(rs, id)
    THEN [i \in 1..Len(rs) |-> IF rs[i].id = id THEN [id |-> id, rule |-> rule] ELSE rs[i]]
    ELSE Append(rs, [id |-> id, rule |-> rule])

\* delete rs[id]
Delete(rs, id) == SelectSeq(rs, LAMBDA e : e.id # id)

(* ---------------- AclDoc ---------------- *)

\* an optional argument: <<>> when omitted, <<value>> when given
Omitted == <<>>
Given(v) == <<v>>

RECURSIVE FirstUnusedIndex(_, _, _)
\* while (this.rules.hasOwnProperty(base + index)) index++
FirstUnusedIndex(rs, base, index) ==
  IF hasOwnProperty(rs, base \o NumberToString(index))
    THEN FirstUnusedIndex(rs, base, index + 1)
    ELSE index

\* the id taken without looking whether it is in use
getNewSubjectIdUnprobed(rs, base) ==
  StripTrailingDigits(base) \o NumberToString(Number(TrailingDigits(base)))

\* the search starting at 1 for a base without trailing digits
getNewSubjectIdFromOne(rs, base) ==
  LET index == IF TrailingDigitCount(base) = 0 THEN 1 ELSE Number(TrailingDigits(base))
      stripped == StripTrailingDigits(base)
  IN  stripped \o NumberToString(FirstUnusedIndex(rs, stripped, index))

getNewSubjectId(rs, base) ==
  LET index == Number(TrailingDigits(base))
      stripped == StripTrailingDigits(base)
  IN  stripped \o NumberToString(FirstUnusedIndex(rs, stripped, index))

\* _getDefaultAccessTo returning undefined instead of throwing
ruleFromArgsNeverThrows(dflt, firstVal, agents, accessTo) == FALSE

\* _getDefaultAccessTo throws exactly when there is no default
ruleFromArgsThrows(dflt, firstVal, agents, accessTo) ==
  Len(from(firstVal, agents, accessTo).accessTo) = 0 /\ dflt = None

ruleFromArgs(dflt, firstVal, agents, accessTo) ==
  LET rule == from(firstVal, agents, accessTo)
  IN  IF Len(rule.accessTo) = 0
        THEN [rule EXCEPT !.accessTo = Append(@, dflt)]
        ELSE rule

\* the rule always stored under a generated id
addRuleIgnoringSubjectId(rs, rule, subjectIdArg) ==
  Put(rs, getNewSubjectId(rs, DefaultBase), rule)

\* subjectId || this._getNewSubjectId(): undefined and '' are falsy
addRule(rs, rule, subjectIdArg) ==
  LET subjectId == IF Len(subjectIdArg) = 0 \/ Len(subjectIdArg[1]) = 0
                     THEN getNewSubjectId(rs, DefaultBase)
                     ELSE subjectIdArg[1]
  IN  Put(rs, subjectId, rule)

RECURSIVE SubtractEach(_, _)
\* the inner while loop: pops rulesToCheck from its end and pushes the
\* fragments of every popped rule
SubtractEach(rulesToCheck, r) ==
  IF Len(rulesToCheck) = 0 THEN <<>>
  ELSE subtract(rulesToCheck[Len(rulesToCheck)], r)
         \o SubtractEach(SubSeq(rulesToCheck, 1, Len(rulesToCheck) - 1), r)

\* the loop returning after the first stored rule
hasRuleLoopFirstOnly(rs, i, rulesToCheck) ==
  IF i > Len(rs) THEN FALSE
  ELSE Len(SubtractEach(rulesToCheck, rs[i].rule)) = 0

RECURSIVE hasRuleLoop(_, _, _)
\* the for loop over Object.values(this.rules), from entry i on
hasRuleLoop(rs, i, rulesToCheck) ==
  IF i > Len(rs) THEN FALSE
  ELSE LET newRulesToCheck == SubtractEach(rulesToCheck, rs[i].rule)
       IN  IF Len(newRulesToCheck) = 0 THEN TRUE
           ELSE hasRuleLoop(rs, i + 1, newRulesToCheck)

hasRule(rs, query) == hasRuleLoop(rs, 1, << query >>)

RECURSIVE InsertFragments(_, _, _)
\* for (const newRule of newRules) this.rules[this._getNewSubjectId(subjectId)] = newRule
InsertFragments(rs, subjectId, newRules) ==
  IF Len(newRules) = 0 THEN rs
  ELSE InsertFragments(Put(rs, getNewSubjectId(rs, subjectId), Head(newRules)),
                       subjectId, Tail(newRules))

\* every remainder stored under fresh ids, also a single fragment
deleteBySubjectAlwaysFresh(rs, subjectId, ruleArg) ==
  IF hasOwnProperty(rs, subjectId)
    THEN IF Len(ruleArg) = 0
           THEN Delete(rs, subjectId)
           ELSE InsertFragments(Delete(rs, subjectId), subjectId,
                                subtract(Get(rs, subjectId), ruleArg[1]))
    ELSE rs

deleteBySubject(rs, subjectId, ruleArg) ==
  IF hasOwnProperty(rs, subjectId)
    THEN IF Len(ruleArg) = 0
           THEN Delete(rs, subjectId)
           ELSE LET prevRule == Get(rs, subjectId)
                    newRules == subtract(prevRule, ruleArg[1])
                IN  IF Len(newRules) = 1
                      THEN Put(rs, subjectId, newRules[1])
                      ELSE InsertFragments(Delete(rs, subjectId), subjectId, newRules)
    ELSE rs

\* one call of deleteBySubject made by a loop, with the store before and after it
Step(rs, subjectId, toDelete) ==
  [ id |-> subjectId, rule |-> toDelete, pre |-> rs,
    post |-> deleteBySubject(rs, subjectId, Given(toDelete)) ]

\* the loop stopping after the first subject
deleteRuleLoopFirstOnly(rs, keys, toDelete) ==
  IF Len(keys) = 0 THEN <<>> ELSE << Step(rs, Head(keys), toDelete) >>

RECURSIVE deleteRuleLoop(_, _, _)
\* for (const subjectId of Object.keys(this.rules)): keys is the snapshot;
\* the value is the sequence of the calls made
deleteRuleLoop(rs, keys, toDelete) ==
  IF Len(keys) = 0 THEN <<>>
  ELSE LET step == Step(rs, Head(keys), toDelete)
       IN  << step >> \o deleteRuleLoop(step.post, Tail(keys), toDelete)

\* the store a loop leaves: the one its last call leaves
StoreAfter(rs, steps) == IF Len(steps) = 0 THEN rs ELSE steps[Len(steps)].post

deleteRuleSteps(rs, toDelete) == deleteRuleLoop(rs, Keys(rs), toDelete)
deleteRule(rs, toDelete) == StoreAfter(rs, deleteRuleSteps(rs, toDelete))

\* the loop stopping after the first entry
deletePermissionsLoopFirstOnly(rs, entries, permissions) ==
  IF Len(entries) = 0 THEN <<>>
  ELSE << Step(rs, Head(entries).id,
               AclRule(permissions, Head(entries).rule.agents, <<>>, NoOptions)) >>

RECURSIVE deletePermissionsLoop(_, _, _)
\* for (const [subjectId, rule] of Object.entries(this.rules)): entries is the snapshot
deletePermissionsLoop(rs, entries, permissions) ==
  IF Len(entries) = 0 THEN <<>>
  ELSE LET toDelete == AclRule(permissions, Head(entries).rule.agents, <<>>, NoOptions)
           step == Step(rs, Head(entries).id, toDelete)
       IN  << step >> \o deletePermissionsLoop(step.post, Tail(entries), permissions)

deletePermissionsSteps(rs, permissions) == deletePermissionsLoop(rs, rs, PermissionsFrom(permissions))
deletePermissions(rs, permissions) == StoreAfter(rs, deletePermissionsSteps(rs, permissions))

\* deleteAgents hands deleteRule the rule new AclRule(Permissions.ALL, agents)
\* as its only argument
deleteAgentsArgs(agents) ==
  [ firstVal |-> AclRule(PermissionsALL, agents, <<>>, NoOptions),
    agents |-> {}, accessTo |-> <<>> ]

\* Object.values(this.rules).filter(rule => rule.agents.includes(agents))
\*   .map(rule => rule.permissions)
PermissionsOfRulesFor(rs, agents) ==
  LET qualifying == SelectSeq(rs, LAMBDA e : Includes(e.rule.agents, AgentsFrom(agents)))
  IN  [i \in 1..Len(qualifying) |-> qualifying[i].rule.permissions]

\* Object.values(this.rules).filter(rule => rule.permissions.includes(permissions))
\*   .map(rule => rule.agents)
AgentsOfRulesWith(rs, permissions) ==
  LET qualifying == SelectSeq(rs, LAMBDA e : Includes(e.rule.permissions, PermissionsFrom(permissions)))
  IN  [i \in 1..Len(qualifying) |-> qualifying[i].rule.agents]

\* Array.prototype.reduce without an initial value throws on an empty array
ReduceThrows(values) == Len(values) = 0

\* the fold that stops at the first value
ReducePermissionsFirstOnly(values) == values[1]

RECURSIVE ReducePermissions(_)
\* values.reduce(Permissions.merge) on a non-empty array: the first value is
\* the start, every later value is merged into the accumulator
ReducePermissions(values) ==
  IF Len(values) = 1 THEN values[1]
  ELSE PermissionsMerge(ReducePermissions(SubSeq(values, 1, Len(values) - 1)), values[Len(values)])

RECURSIVE ReduceAgents(_)
\* values.reduce(Agents.merge) on a non-empty array
ReduceAgents(values) ==
  IF Len(values) = 1 THEN values[1]
  ELSE AgentsMerge(ReduceAgents(SubSeq(values, 1, Len(values) - 1)), values[Len(values)])

\* the outcome of a query: it threw, or it returned value
Threw == [threw |-> TRUE, value |-> {}]
Value(v) == [threw |-> FALSE, value |-> v]

getPermissionsFor(rs, agents) ==
  LET values == PermissionsOfRulesFor(rs, agents)
  IN  IF ReduceThrows(values) THEN Threw ELSE Value(ReducePermissions(values))

\* the fold started from an empty Agents
getAgentsWithFromEmpty(rs, permissions) ==
  LET values == AgentsOfRulesWith(rs, permissions)
  IN  IF ReduceThrows(values) THEN Value({}) ELSE Value(ReduceAgents(values))

getAgentsWith(rs, permissions) ==
  LET values == AgentsOfRulesWith(rs, permissions)
  IN  IF ReduceThrows(values) THEN Threw ELSE Value(ReduceAgents(values))

\* the pruning that looks at permissions and agents only
getMinifiedRulesIgnoringQuads(rs) ==
  SelectSeq(rs, LAMBDA e : ~(IsEmpty(e.rule.permissions) \/ IsEmpty(e.rule.agents)))

\* for (const [subjectId, rule] of Object.entries(this.rules))
\*   if (rule.hasNoEffect()) delete this.rules[subjectId]
getMinifiedRules(rs) == SelectSeq(rs, LAMBDA e : ~hasNoEffect(e.rule))

(* ---------------- the calls offered to a document ---------------- *)

DefaultInputs == {None, "r1"}
AccessToInputs == {<<>>, <<"r2">>}
PermissionInputs == SUBSET Perms
AgentInputs == SUBSET AgentIds

\* AclRule instances handed to addRule as its first argument
RuleInputs ==
  { AclRule({"read"}, {"A"}, <<>>, [NoOptions EXCEPT !.otherQuads = SomeQuads]) }

\* the (firstVal, agents, accessTo) argument lists of addRule
AddInputs ==
  { [firstVal |-> PermsArg(p), agents |-> a, accessTo |-> <<>>] :
      p \in PermissionInputs \ {{}}, a \in AgentInputs \ {{}} }
  \cup { [firstVal |-> PermsArg({"read"}), agents |-> {"A"}, accessTo |-> <<"r2">>] }
  \cup { [firstVal |-> PermsArg({}), agents |-> {"A"}, accessTo |-> <<>>] }
  \cup { [firstVal |-> r, agents |-> {}, accessTo |-> <<>>] : r \in RuleInputs }

\* the (permissions, agents, accessTo) argument lists of hasRule
QueryInputs ==
  { [firstVal |-> PermsArg(p), agents |-> a, accessTo |-> t] :
      p \in PermissionInputs, a \in AgentInputs, t \in AccessToInputs }

\* the (permissions, agents, accessTo) argument lists of deleteRule
DeleteRuleInputs ==
  { [firstVal |-> PermsArg(p), agents |-> a, accessTo |-> <<>>] :
      p \in PermissionInputs, a \in AgentInputs }
  \cup { [firstVal |-> PermsArg({"read"}), agents |-> {"A"}, accessTo |-> <<"r2">>] }

SubjectIdInputs == { Omitted, Given(<<>>), Given(<<"a">>), Given(<<"a", "0", "1">>) }

\* the rule argument of deleteBySubject
DeleteInputs ==
  { Omitted }
  \cup { Given(AclRule(p, a, <<>>, NoOptions)) : p \in PermissionInputs \ {{}}, a \in AgentInputs \ {{}} }
  \cup { Given(AclRule({"read"}, {"A"}, <<"r2">>, NoOptions)) }

\* last is the record of the call that has just returned, Idle between calls
\* the stores the model follows
WithinBounds(rs) ==
  /\ Len(rs) <= MaxEntries
  /\ \A i \in 1..Len(rs) : Number(TrailingDigits(rs[i].id)) <= MaxIndex

NoArgs == [none |-> TRUE]
Returned(op, args, pre, result, steps) ==
  [ op |-> op, args |-> args, pre |-> pre, result |-> result, steps |-> steps ]

Idle == Returned("idle", NoArgs, <<>>, "ok", <<>>)

Init ==
  /\ rules = <<>>
  /\ defaultAccessTo \in DefaultInputs
  /\ last = Idle

AddRule ==
  /\ last = Idle
  /\ \E in \in AddInputs, sid \in SubjectIdInputs :
       LET args == [in |-> in, subjectId |-> sid] IN
       IF ruleFromArgsThrows(defaultAccessTo, in.firstVal, in.agents, in.accessTo)
         THEN /\ rules' = rules
              /\ last' = Returned("addRule", args, rules, "error", <<>>)
         ELSE LET rule == ruleFromArgs(defaultAccessTo, in.firstVal, in.agents, in.accessTo)
                  added == addRule(rules, rule, sid)
              IN  /\ WithinBounds(added)
                  /\ Len(added) <= MaxRules \/ Len(added) = Len(rules)
                  /\ rules' = added
                  /\ last' = Returned("addRule", args, rules, "ok", <<>>)
  /\ UNCHANGED defaultAccessTo

HasRule ==
  /\ last = Idle
  /\ \E in \in QueryInputs :
       /\ last' = Returned("hasRule", [in |-> in], rules,
                    IF ruleFromArgsThrows(defaultAccessTo, in.firstVal, in.agents, in.accessTo)
                      THEN "error"
                      ELSE IF hasRule(rules, ruleFromArgs(defaultAccessTo, in.firstVal, in.agents, in.accessTo))
                             THEN "true" ELSE "false",
                    <<>>)
  /\ UNCHANGED <<rules, defaultAccessTo>>

DeleteRule ==
  /\ last = Idle
  /\ \E in \in DeleteRuleInputs :
       IF ruleFromArgsThrows(defaultAccessTo, in.firstVal, in.agents, in.accessTo)
         THEN /\ rules' = rules
              /\ last' = Returned("deleteRule", [in |-> in], rules, "error", <<>>)
         ELSE LET toDelete == ruleFromArgs(defaultAccessTo, in.firstVal, in.agents, in.accessTo)
                  steps == deleteRuleSteps(rules, toDelete)
              IN  /\ WithinBounds(StoreAfter(rules, steps))
                  /\ rules' = StoreAfter(rules, steps)
                  /\ last' = Returned("deleteRule", [in |-> in], rules, "ok", steps)
  /\ UNCHANGED defaultAccessTo

DeleteBySubject ==
  /\ last = Idle
  /\ \E subjectId \in KeySet(rules) \cup {<<"a">>}, ruleArg \in DeleteInputs :
       /\ WithinBounds(deleteBySubject(rules, subjectId, ruleArg))
       /\ rules' = deleteBySubject(rules, subjectId, ruleArg)
       /\ last' = Returned("deleteBySubject", [subjectId |-> subjectId, rule |-> ruleArg], rules, "ok",
                    IF Len(ruleArg) = 0 THEN <<>> ELSE << Step(rules, subjectId, ruleArg[1]) >>)
  /\ UNCHANGED defaultAccessTo

DeletePermissions ==
  /\ last = Idle
  /\ \E p \in PermissionInputs :
       LET steps == deletePermissionsSteps(rules, p)
       IN  /\ WithinBounds(StoreAfter(rules, steps))
           /\ rules' = StoreAfter(rules, steps)
           /\ last' = Returned("deletePermissions", [permissions |-> p], rules, "ok", steps)
  /\ UNCHANGED defaultAccessTo

DeleteAgents ==
  /\ last = Idle
  /\ \E agents \in AgentInputs :
       LET in == deleteAgentsArgs(agents) IN
       IF ruleFromArgsThrows(defaultAccessTo, in.firstVal, in.agents, in.accessTo)
         THEN /\ rules' = rules
              /\ last' = Returned("deleteAgents", [agents |-> agents], rules, "error", <<>>)
         ELSE LET toDelete == ruleFromArgs(defaultAccessTo, in.firstVal, in.agents, in.accessTo)
                  steps == deleteRuleSteps(rules, toDelete)
              IN  /\ WithinBounds(StoreAfter(rules, steps))
                  /\ rules' = StoreAfter(rules, steps)
                  /\ last' = Returned("deleteAgents", [agents |-> agents], rules, "ok", steps)
  /\ UNCHANGED defaultAccessTo

GetPermissionsFor ==
  /\ last = Idle
  /\ \E agents \in AgentInputs :
       last' = Returned("getPermissionsFor", [agents |-> agents], rules,
                        getPermissionsFor(rules, agents), <<>>)
  /\ UNCHANGED <<rules, defaultAccessTo>>

GetAgentsWith ==
  /\ last = Idle
  /\ \E permissions \in PermissionInputs :
       last' = Returned("getAgentsWith", [permissions |-> permissions], rules,
                        getAgentsWith(rules, permissions), <<>>)
  /\ UNCHANGED <<rules, defaultAccessTo>>

\* the mapping returned is this.rules itself
GetMinifiedRules ==
  /\ last = Idle
  /\ rules' = getMinifiedRules(rules)
  /\ last' = Returned("getMinifiedRules", NoArgs, rules, getMinifiedRules(rules), <<>>)
  /\ UNCHANGED defaultAccessTo

\* the caller of deleteBySubject(subjectId, rule) puts back what the call took
\* from the rule stored under subjectId, if it took anything:
\* addRule(AclRule.common(stored, rule))
ReAddRemoved ==
  /\ last.op = "deleteBySubject"
  /\ Len(last.args.rule) = 1
  /\ hasOwnProperty(last.pre, last.args.subjectId)
  /\ LET removed == common(Get(last.pre, last.args.subjectId), last.args.rule[1])
         args == [removed |-> removed, before |-> last.pre]
     IN  /\ ~IsEmpty(removed.permissions) /\ ~IsEmpty(removed.agents)
         /\ IF ruleFromArgsThrows(defaultAccessTo, removed, {}, <<>>)
              THEN /\ rules' = rules
                   /\ last' = Returned("reAdd", args, rules, "error", <<>>)
              ELSE LET added == addRule(rules, ruleFromArgs(defaultAccessTo, removed, {}, <<>>), Omitted)
                   IN  /\ WithinBounds(added)
                       /\ Len(added) <= MaxRules \/ Len(last.pre) = 1
                       /\ rules' = added
                       /\ last' = Returned("reAdd", args, rules, "ok", <<>>)
  /\ UNCHANGED defaultAccessTo

\* the caller has looked at the outcome of the call and goes on
Forget ==
  /\ last # Idle
  /\ last' = Idle
  /\ UNCHANGED <<rules, defaultAccessTo>>

Next ==
  \/ AddRule \/ HasRule \/ DeleteRule \/ DeleteBySubject \/ DeleteAgents
  \/ DeletePermissions \/ GetPermissionsFor \/ GetAgentsWith \/ GetMinifiedRules
  \/ ReAddRemoved \/ Forget

Spec == Init /\ [][Next]_vars

(* ---------------- the rule algebra on its own ---------------- *)

AccessToValues == {<<>>, <<"r1">>, <<"r2">>}
FlagValues == {None, "d"}

\* the rules AclRule.subtract is applied to
AlgebraRules ==
  { AclRule(p, a, t, [otherQuads |-> q, default |-> d, defaultForNew |-> n]) :
      p \in SUBSET Perms, a \in SUBSET AgentIds, t \in AccessToValues,
      q \in {NoQuads, SomeQuads}, d \in FlagValues, n \in FlagValues }

InitAlgebra ==
  /\ rules = <<>>
  /\ defaultAccessTo = None
  /\ last = Idle

Subtract ==
  /\ last = Idle
  /\ \E first \in AlgebraRules, second \in AlgebraRules :
       last' = Returned("subtract", [first |-> first, second |-> second], <<>>,
                        subtract(first, second), <<>>)
  /\ UNCHANGED <<rules, defaultAccessTo>>

NextAlgebra == Subtract \/ Forget

SpecAlgebra == InitAlgebra /\ [][NextAlgebra]_vars

(* ---------------- coverage ---------------- *)

\* the rule grants permission p to agent a
Grants(rule, p, a) == p \in rule.permissions /\ a \in rule.agents

\* some stored rule grants p to a
Covered(rs, p, a) == \E i \in 1..Len(rs) : Grants(rs[i].rule, p, a)

\* the entries of a store other than the one under id, in order
Others(rs, id) == SelectSeq(rs, LAMBDA e : e.id # id)

DistinctIds(rs) == \A i, j \in 1..Len(rs) : rs[i].id = rs[j].id => i = j


(* ---------------- AclRule.subtract: C3, C4 ---------------- *)

\* the number of fragments that grant p to a
FragmentsGranting(fragments, p, a) ==
  Cardinality({k \in 1..Len(fragments) : Grants(fragments[k], p, a)})

SubtractReturned == last.op = "subtract"

\* C3: for rules A and B with matching accessTo, every pair of A that is not
\* in B is granted by exactly one fragment of subtract(A, B) (so the fragments
\* are pairwise disjoint there) and no fragment grants a pair that is in both
\* A and B.
C3_SubtractionComplete ==
  (SubtractReturned /\ last.args.first.accessTo = last.args.second.accessTo) =>
    LET A == last.args.first
        B == last.args.second
    IN  /\ \A k, m \in 1..Len(last.result) : \A p \in Perms, a \in AgentIds :
             (Grants(last.result[k], p, a) /\ Grants(last.result[m], p, a)) => k = m
        /\ \A p \in A.permissions, a \in A.agents :
             IF Grants(B, p, a)
               THEN FragmentsGranting(last.result, p, a) = 0
               ELSE FragmentsGranting(last.result, p, a) = 1

\* C4 as claimed: subtract(A, A) is the empty list for every rule A, with or
\* without passthrough data.
C4_SubtractSelfEmpty ==
  (SubtractReturned /\ last.args.first = last.args.second) => last.result = <<>>

\* C4 as amended: subtract(A, A) is the empty list for every rule A without
\* passthrough data; for a rule A with passthrough data both fragments are
\* kept, and neither grants any (permission, agent) pair.
C4_SubtractSelfEmptyWithoutPassthrough ==
  (SubtractReturned /\ last.args.first = last.args.second) =>
    IF Len(last.args.first.otherQuads) = 0
      THEN last.result = <<>>
      ELSE /\ Len(last.result) = 2
           /\ \A p \in Perms, a \in AgentIds : FragmentsGranting(last.result, p, a) = 0

\* a rule that grants something, with a target and without passthrough data,
\* has been subtracted from itself
C4_Witness ==
  /\ SubtractReturned
  /\ last.args.first = last.args.second
  /\ last.args.first.permissions = Perms
  /\ last.args.first.agents = AgentIds
  /\ Len(last.args.first.accessTo) > 0
  /\ Len(last.args.first.otherQuads) = 0
  /\ last.result = <<>>

(* ---------------- AclDoc.hasRule: C1, C5 ---------------- *)

\* hasRule has returned a boolean
HasRuleReturned == last.op = "hasRule" /\ last.result # "error"

\* the rule hasRule built from its arguments
QueriedRule == ruleFromArgs(defaultAccessTo, last.args.in.firstVal, last.args.in.agents, last.args.in.accessTo)

\* C1: on every store, the empty one included, and for every query, empty
\* permissions or agents included, hasRule(P, Ag) is true iff every pair of
\* P x Ag is granted by some stored rule.
C1_HasRuleIffCovered ==
  HasRuleReturned =>
    ( last.result = "true" <=>
        \A p \in QueriedRule.permissions, a \in QueriedRule.agents : Covered(last.pre, p, a) )

\* C5: hasRule(P, Ag, accessTo) is true only if every pair of P x Ag is
\* granted by a stored rule whose accessTo contains the queried resource.
C5_HasRuleRespectsAccessTo ==
  (HasRuleReturned /\ last.result = "true") =>
    \A p \in QueriedRule.permissions, a \in QueriedRule.agents :
      \E i \in 1..Len(last.pre) :
        /\ Grants(last.pre[i].rule, p, a)
        /\ \A k \in 1..Len(QueriedRule.accessTo) :
             \E m \in 1..Len(last.pre[i].rule.accessTo) :
               last.pre[i].rule.accessTo[m] = QueriedRule.accessTo[k]

(* ---------------- AclDoc.deleteRule: C2 ---------------- *)

DeleteRuleReturned == last.op = "deleteRule" /\ last.result = "ok"

\* the rule deleteRule built from its arguments
DeletedRule == ruleFromArgs(defaultAccessTo, last.args.in.firstVal, last.args.in.agents, last.args.in.accessTo)

\* C2: after deleteRule(P, Ag), hasRule(p, a) is false for every p in P and
\* a in Ag, and every pair outside P x Ag that some stored rule granted before
\* the call is still granted by some stored rule.
C2_DeleteRuleRemovesExactlyTarget ==
  DeleteRuleReturned =>
    /\ \A p \in DeletedRule.permissions, a \in DeletedRule.agents :
         ~hasRule(rules, ruleFromArgs(defaultAccessTo, PermsArg({p}), {a}, last.args.in.accessTo))
    /\ \A p \in Perms, a \in AgentIds :
         (~Grants(DeletedRule, p, a) /\ Covered(last.pre, p, a)) => Covered(rules, p, a)

\* deleteRule has removed a granted pair from a rule that it had to split,
\* while another pair of that store stays granted
C2_Witness ==
  /\ DeleteRuleReturned
  /\ Len(rules) > Len(last.pre)
  /\ \E p \in Perms, a \in AgentIds :
       Grants(DeletedRule, p, a) /\ Covered(last.pre, p, a) /\ ~Covered(rules, p, a)
  /\ \E p \in Perms, a \in AgentIds :
       ~Grants(DeletedRule, p, a) /\ Covered(last.pre, p, a)

(* ---------------- AclDoc.deleteBySubject: C6, C7 ---------------- *)

\* the fragments a call of deleteBySubject computes for an existing subject
FragmentsOf(step) == subtract(Get(step.pre, step.id), step.rule)

\* C6: when deleteBySubject(id, rule) finds id and subtract(stored, rule) is
\* exactly one fragment, the store keeps exactly its subject ids, id maps to
\* that fragment and every other entry is unchanged.
C6_SingleFragmentInPlace ==
  \A k \in 1..Len(last.steps) :
    LET step == last.steps[k] IN
    (hasOwnProperty(step.pre, step.id) /\ Len(FragmentsOf(step)) = 1) =>
      /\ KeySet(step.post) = KeySet(step.pre)
      /\ Len(step.post) = Len(step.pre)
      /\ Get(step.post, step.id) = FragmentsOf(step)[1]
      /\ \A id \in KeySet(step.pre) \ {step.id} : Get(step.post, id) = Get(step.pre, id)

\* deleteBySubject has shrunk one of several entries in place
C6_Witness ==
  /\ last.op = "deleteBySubject"
  /\ Len(last.steps) = 1
  /\ Len(last.pre) >= 2
  /\ hasOwnProperty(last.pre, last.args.subjectId)
  /\ Len(FragmentsOf(last.steps[1])) = 1
  /\ FragmentsOf(last.steps[1])[1] # Get(last.pre, last.args.subjectId)
  /\ rules = last.steps[1].post

\* C7: when deleteBySubject(id, rule) yields zero or two fragments, the
\* original entry is deleted and each fragment is stored under an id that is
\* not in use when it is inserted: the other entries are kept as they are and
\* the store holds (previous count - 1 + number of fragments) entries; this
\* holds for every call made by the loops of deleteRule and deletePermissions.
C7_SplitUsesFreshIds ==
  \A k \in 1..Len(last.steps) :
    LET step == last.steps[k] IN
    (hasOwnProperty(step.pre, step.id) /\ Len(FragmentsOf(step)) # 1) =>
      LET kept == Others(step.pre, step.id)
          n == Len(FragmentsOf(step))
      IN  /\ Len(step.post) = Len(step.pre) - 1 + n
          /\ SubSeq(step.post, 1, Len(kept)) = kept
          /\ \A f \in 1..n :
               /\ step.post[Len(kept) + f].rule = FragmentsOf(step)[f]
               /\ ~hasOwnProperty(SubSeq(step.post, 1, Len(kept) + f - 1), step.post[Len(kept) + f].id)

\* one deleteRule call has split a rule in two beside other entries and has
\* removed another rule altogether
C7_Witness ==
  /\ last.op = "deleteRule"
  /\ rules = StoreAfter(last.pre, last.steps)
  /\ \E k \in 1..Len(last.steps) :
       /\ Len(last.steps[k].pre) >= 2
       /\ hasOwnProperty(last.steps[k].pre, last.steps[k].id)
       /\ Len(FragmentsOf(last.steps[k])) = 2
  /\ \E k \in 1..Len(last.steps) :
       /\ hasOwnProperty(last.steps[k].pre, last.steps[k].id)
       /\ Len(FragmentsOf(last.steps[k])) = 0

(* ---------------- AclDoc.addRule, _getNewSubjectId: C8, C9 ---------------- *)

AddRuleReturned == last.op = "addRule" /\ last.result = "ok"

\* the rule addRule built from its arguments
AddedRule == ruleFromArgs(defaultAccessTo, last.args.in.firstVal, last.args.in.agents, last.args.in.accessTo)

\* a subject id was passed ('' counts as none: it is falsy, and addRule
\* generates an id for it as it does for undefined)
ExplicitSubjectId == Len(last.args.subjectId) = 1 /\ Len(last.args.subjectId[1]) > 0

DescribedId(rs, base, startWithoutDigits) ==
  LET digits == TrailingDigits(base)
      stripped == StripTrailingDigits(base)
      start == IF Len(digits) = 0 THEN startWithoutDigits ELSE Number(digits)
      Unused(n) == ~hasOwnProperty(rs, stripped \o NumberToString(n))
      least == CHOOSE n \in start..(start + Len(rs)) :
                 Unused(n) /\ \A m \in start..(n - 1) : ~Unused(m)
  IN  stripped \o NumberToString(least)

\* every id generated by the call that has just returned is the described one
GeneratedIdsAre(startWithoutDigits) ==
  /\ (AddRuleReturned /\ ~ExplicitSubjectId) =>
       /\ Len(rules) = Len(last.pre) + 1
       /\ SubSeq(rules, 1, Len(last.pre)) = last.pre
       /\ rules[Len(rules)].id = DescribedId(last.pre, DefaultBase, startWithoutDigits)
  /\ \A k \in 1..Len(last.steps) :
       LET step == last.steps[k] IN
       (hasOwnProperty(step.pre, step.id) /\ Len(FragmentsOf(step)) # 1) =>
         \A f \in 1..Len(FragmentsOf(step)) :
           LET before == Len(step.pre) - 1 + f - 1 IN
           /\ Len(step.post) > before
           /\ step.post[before + 1].id
                = DescribedId(SubSeq(step.post, 1, before), step.id, startWithoutDigits)

\* C9 as claimed: the generated id is the base without its trailing digits
\* followed by the least unused n >= start, where start is 1 for a base
\* without trailing digits; addRule without subjectId overwrites nothing.
C9_FreshIdStartsAtOne == GeneratedIdsAre(1)

\* C9 as amended: as claimed, but start is 0 for a base without trailing
\* digits.
C9_FreshIdStartsAtZero == GeneratedIdsAre(0)

\* a rule stored under an id without trailing digits has been split in two
C9_Witness ==
  /\ last.op = "deleteBySubject"
  /\ Len(last.steps) = 1
  /\ hasOwnProperty(last.pre, last.args.subjectId)
  /\ TrailingDigitCount(last.args.subjectId) = 0
  /\ Len(FragmentsOf(last.steps[1])) = 2
  /\ hasOwnProperty(rules, last.args.subjectId \o <<"0">>)
  /\ hasOwnProperty(rules, last.args.subjectId \o <<"1">>)

(* ---------------- AclDoc.deletePermissions: C10 ---------------- *)

DeletePermissionsReturned == last.op = "deletePermissions"

\* C10: after deletePermissions(P) no stored rule grants a permission of P to
\* any agent, and a pair (q, a) with q outside P is granted by some stored
\* rule after the call iff it was before.
C10_DeletePermissionsExact ==
  DeletePermissionsReturned =>
    \A q \in Perms, a \in AgentIds :
      IF q \in last.args.permissions
        THEN ~Covered(rules, q, a)
        ELSE Covered(rules, q, a) <=> Covered(last.pre, q, a)

\* deletePermissions has taken a permission from two rules, one of which
\* keeps another permission
C10_Witness ==
  /\ DeletePermissionsReturned
  /\ Len(last.pre) >= 2
  /\ \A i \in 1..Len(last.pre) :
       \E q \in last.args.permissions, a \in AgentIds : Grants(last.pre[i].rule, q, a)
  /\ \E q \in Perms \ last.args.permissions, a \in AgentIds : Covered(rules, q, a)
  /\ \A q \in last.args.permissions, a \in AgentIds : ~Covered(rules, q, a)


(* ---------------- C11, C12: the aggregate queries ---------------- *)

GetPermissionsForReturned == last.op = "getPermissionsFor"
GetAgentsWithReturned == last.op = "getAgentsWith"

\* the stored rules that qualify for a query
RulesForAgents(rs, agents) == { rs[i].rule : i \in { j \in 1..Len(rs) : agents \subseteq rs[j].rule.agents } }
RulesWithPermissions(rs, permissions) ==
  { rs[i].rule : i \in { j \in 1..Len(rs) : permissions \subseteq rs[j].rule.permissions } }

\* C11: when some stored rule's agents include all queried agents,
\* getPermissionsFor returns exactly the union of the permissions of all
\* such rules, and leaves the store as it was
C11_GetPermissionsForIsUnion ==
  (GetPermissionsForReturned /\ RulesForAgents(last.pre, last.args.agents) # {})
    => /\ ~last.result.threw
       /\ last.result.value = UNION { r.permissions : r \in RulesForAgents(last.pre, last.args.agents) }
       /\ rules = last.pre

\* two rules under different subjects grant {read} and {write} to A, and the
\* query for A returned {read, write}
C11_Witness ==
  /\ GetPermissionsForReturned
  /\ last.args.agents = {"A"}
  /\ Len(last.pre) = 2
  /\ last.pre[1].id # last.pre[2].id
  /\ last.pre[1].rule.permissions = {"read"} /\ "A" \in last.pre[1].rule.agents
  /\ last.pre[2].rule.permissions = {"write"} /\ "A" \in last.pre[2].rule.agents
  /\ ~last.result.threw
  /\ last.result.value = {"read", "write"}

\* C12: getPermissionsFor and getAgentsWith throw, and never return an empty
\* set, when no stored rule qualifies for the query (an empty store
\* included); the store is as it was
C12_EmptyReductionThrows ==
  /\ (GetPermissionsForReturned /\ RulesForAgents(last.pre, last.args.agents) = {})
       => (last.result.threw /\ rules = last.pre)
  /\ (GetAgentsWithReturned /\ RulesWithPermissions(last.pre, last.args.permissions) = {})
       => (last.result.threw /\ rules = last.pre)

\* getAgentsWith threw on a store that holds rules, none of them with the
\* queried permissions
C12_Witness ==
  /\ GetAgentsWithReturned
  /\ Len(last.pre) > 0
  /\ RulesWithPermissions(last.pre, last.args.permissions) = {}
  /\ last.result.threw
  /\ rules = last.pre

\* getPermissionsFor threw on the empty store
C12_WitnessEmptyStore ==
  /\ GetPermissionsForReturned
  /\ Len(last.pre) = 0
  /\ last.result.threw

(* ---------------- C13: calls without an accessTo value ---------------- *)

\* the argument list names no accessTo: none is passed, and a rule passed as
\* first argument has none either
CalledWithoutAccessTo(in) ==
  /\ Len(in.accessTo) = 0
  /\ IsAclRule(in.firstVal) => Len(in.firstVal.accessTo) = 0

\* the entry addRule has just written: under the given id, or the last one
WrittenRule ==
  IF Len(last.args.subjectId) = 1 /\ Len(last.args.subjectId[1]) > 0
    THEN Get(rules, last.args.subjectId[1])
    ELSE rules[Len(rules)].rule

\* C13: addRule, hasRule and deleteRule called without an accessTo value
\* throw and leave this.rules as it was when the document has no default
\* accessTo; with a default they return and the rule they construct has the
\* default as its accessTo
C13_MissingAccessTo ==
  (last.op \in {"addRule", "hasRule", "deleteRule"} /\ CalledWithoutAccessTo(last.args.in))
    => IF defaultAccessTo = None
         THEN last.result = "error" /\ rules = last.pre
         ELSE /\ last.result # "error"
              /\ last.op = "addRule" => WrittenRule.accessTo = << defaultAccessTo >>
              /\ last.op = "deleteRule" =>
                   \A i \in 1..Len(last.steps) : last.steps[i].rule.accessTo = << defaultAccessTo >>
              /\ ruleFromArgs(defaultAccessTo, last.args.in.firstVal, last.args.in.agents,
                              last.args.in.accessTo).accessTo = << defaultAccessTo >>

\* deleteRule without accessTo threw on a document without default that
\* holds a rule, and the rule is still there
C13_Witness ==
  /\ last.op = "deleteRule"
  /\ CalledWithoutAccessTo(last.args.in)
  /\ defaultAccessTo = None
  /\ Len(last.pre) > 0
  /\ last.result = "error"
  /\ rules = last.pre

\* addRule without accessTo stored a rule with the default accessTo
C13_WitnessDefault ==
  /\ last.op = "addRule"
  /\ CalledWithoutAccessTo(last.args.in)
  /\ defaultAccessTo = "r1"
  /\ last.result = "ok"
  /\ WrittenRule.accessTo = << "r1" >>

(* ---------------- C14: getMinifiedRules ---------------- *)

GetMinifiedRulesReturned == last.op = "getMinifiedRules"

\* C14: getMinifiedRules removes exactly the entries whose rule has no
\* effect, leaves every other entry as it was under its id and in its place,
\* returns the store, and a second application changes and returns nothing
\* else
C14_MinifyExactAndIdempotent ==
  GetMinifiedRulesReturned
    => /\ \A i \in 1..Len(last.pre) :
            IF hasNoEffect(last.pre[i].rule)
              THEN ~hasOwnProperty(rules, last.pre[i].id)
              ELSE hasOwnProperty(rules, last.pre[i].id) /\ Get(rules, last.pre[i].id) = last.pre[i].rule
       /\ KeySet(rules) \subseteq KeySet(last.pre)
       /\ \A i, j \in 1..Len(rules) :
            i < j => \E k, l \in 1..Len(last.pre) : k < l /\ last.pre[k] = rules[i] /\ last.pre[l] = rules[j]
       /\ last.result = rules
       /\ getMinifiedRules(rules) = rules

\* getMinifiedRules removed a rule without effect and kept one with effect
C14_Witness ==
  /\ GetMinifiedRulesReturned
  /\ \E i \in 1..Len(last.pre) : hasNoEffect(last.pre[i].rule)
  /\ \E i \in 1..Len(last.pre) : ~hasNoEffect(last.pre[i].rule)
  /\ Len(rules) < Len(last.pre)
  /\ Len(rules) > 0

\* getMinifiedRules kept a rule that grants nothing but carries other quads
C14_WitnessPassthrough ==
  /\ GetMinifiedRulesReturned
  /\ \E i \in 1..Len(rules) : IsEmpty(rules[i].rule.permissions) /\ Len(rules[i].rule.otherQuads) > 0

(* ---------------- C15: deleteBySubject and re-adding what it took ---------------- *)

Pairs == Perms \X AgentIds
CoveredPairs(rs) == { pa \in Pairs : Covered(rs, pa[1], pa[2]) }

DeleteBySubjectWithRuleReturned ==
  last.op = "deleteBySubject" /\ Len(last.args.rule) = 1

ReAddReturned == last.op = "reAdd" /\ last.result = "ok"

\* C15: deleteBySubject(id, X) leaves every pair outside X covered exactly
\* when it was covered before, and once the part it took (the intersection
\* of the stored rule with X) has been added again the store covers the
\* same pairs as before the delete
C15_DeleteReAddRoundTrip ==
  /\ DeleteBySubjectWithRuleReturned
       => \A pa \in Pairs :
            ~Grants(last.args.rule[1], pa[1], pa[2])
              => (pa \in CoveredPairs(rules) <=> pa \in CoveredPairs(last.pre))
  /\ ReAddReturned => CoveredPairs(rules) = CoveredPairs(last.args.before)

\* a store of one rule was split in two by the delete, lost pairs by it, and
\* covers the same pairs again after the re-add
C15_Witness ==
  /\ ReAddReturned
  /\ Len(last.args.before) = 1
  /\ Len(last.pre) = 2
  /\ CoveredPairs(last.pre) # CoveredPairs(last.args.before)
  /\ CoveredPairs(rules) = CoveredPairs(last.args.before)

\* a delete on a store of two rules took pairs from one of them
C15_WitnessDelete ==
  /\ DeleteBySubjectWithRuleReturned
  /\ Len(last.pre) = 2
  /\ CoveredPairs(rules) # CoveredPairs(last.pre)
  /\ CoveredPairs(rules) # {}

(* ---------------- C16: hasRule and the order of the store ---------------- *)

Orders(n) == { f \in [1..n -> 1..n] : \A i, j \in 1..n : f[i] = f[j] => i = j }

\* the rules of rs inserted in the order f, under other subject ids
Reordered(rs, f) ==
  [ i \in 1..Len(rs) |-> [id |-> << "s", Digits[i + 1] >>, rule |-> rs[f[i]].rule] ]

\* C16: hasRule answers a query the same on every store that holds the same
\* rules, whatever their order and their subject ids
C16_HasRuleOrderIndependent ==
  HasRuleReturned
    => \A f \in Orders(Len(last.pre)) :
         hasRule(Reordered(last.pre, f), QueriedRule) = (last.result = "true")

\* hasRule returned true on a store of two different rules, neither of which
\* covers the query alone
C16_Witness ==
  /\ HasRuleReturned
  /\ last.result = "true"
  /\ Len(last.pre) = 2
  /\ last.pre[1].rule # last.pre[2].rule
  /\ ~hasRule(<< last.pre[1] >>, QueriedRule)
  /\ ~hasRule(<< last.pre[2] >>, QueriedRule)

(* ---------------- C17: deletes leave no ineffective rule ---------------- *)

AllEffective(rs) == \A i \in 1..Len(rs) : ~hasNoEffect(rs[i].rule)

DeleteOps == {"deleteRule", "deleteBySubject", "deleteAgents", "deletePermissions"}

\* addRule has stored a rule that has an effect
AddedEffectiveRule ==
  \/ /\ last.op = "addRule"
     /\ last.result = "ok"
     /\ ~hasNoEffect(WrittenRule)
  \/ ReAddReturned

\* C17: a delete operation, or an addRule of a rule with effect, on a store
\* in which every rule has an effect leaves a store in which every rule has an
\* effect; so every store built from the empty one by such calls has only
\* rules with effect
C17_DeletesKeepRulesEffective ==
  ((last.op \in DeleteOps \/ AddedEffectiveRule) /\ AllEffective(last.pre))
    => AllEffective(rules)

\* deleteRule took all that a rule granted and the rule's entry is gone, on a
\* store of rules with effect
C17_Witness ==
  /\ last.op = "deleteRule"
  /\ last.result = "ok"
  /\ Len(last.pre) = 2
  /\ AllEffective(last.pre)
  /\ Len(rules) = 1
  /\ AllEffective(rules)

(* ---------------- C18: what the fragments inherit ---------------- *)

InheritsFrom(fragment, first) ==
  /\ fragment.accessTo = first.accessTo
  /\ fragment.otherQuads = first.otherQuads
  /\ fragment.default = first.default
  /\ fragment.defaultForNew = first.defaultForNew

\* C18: every fragment returned by subtract(first, second) has first's
\* accessTo, other quads, default and defaultForNew, whatever second's are
C18_FragmentsInheritFromFirst ==
  SubtractReturned
    => \A k \in 1..Len(last.result) : InheritsFrom(last.result[k], last.args.first)

\* subtract returned two fragments for operands that differ in accessTo,
\* other quads and both flags
C18_Witness ==
  /\ SubtractReturned
  /\ Len(last.result) = 2
  /\ last.args.first.accessTo = << "r1" >> /\ last.args.second.accessTo = << "r2" >>
  /\ last.args.first.otherQuads = SomeQuads /\ last.args.second.otherQuads = NoQuads
  /\ last.args.first.default = "d" /\ last.args.second.default = None
  /\ last.args.first.defaultForNew = None /\ last.args.second.defaultForNew = "d"
  /\ \A k \in 1..2 : InheritsFrom(last.result[k], last.args.first)

\* the same for the fragments a delete operation writes to the store: each
\* has the accessTo, other quads and flags of the rule it was cut from
C18_StoredFragmentsInherit ==
  \A k \in 1..Len(last.steps) :
    LET step == last.steps[k] IN
    hasOwnProperty(step.pre, step.id)
      => \A i \in 1..Len(step.post) :
           (~hasOwnProperty(step.pre, step.post[i].id) \/ step.post[i].id = step.id)
             => InheritsFrom(step.post[i].rule, Get(step.pre, step.id))

(* ---------------- C19: rules deleteRule has nothing to take from ---------------- *)

SharesNoPair(rule, target) ==
  \A pa \in Pairs : ~(Grants(rule, pa[1], pa[2]) /\ Grants(target, pa[1], pa[2]))

\* C19: deleteRule(P, Ag) leaves every stored rule that shares no pair with
\* P x Ag as it is, under its id, and adds no entry for it: the
\* deleteBySubject call made for such a rule leaves the store as it found it
C19_DeleteRuleLeavesUnrelatedRules ==
  DeleteRuleReturned
    => \A k \in 1..Len(last.steps) :
         LET step == last.steps[k] IN
         (hasOwnProperty(step.pre, step.id) /\ SharesNoPair(Get(step.pre, step.id), step.rule))
           => step.post = step.pre

(* ---------------- C20: deleting and pruning grant nothing ---------------- *)

RemovingOps == DeleteOps \cup {"getMinifiedRules"}

\* C20: after deleteRule, deleteBySubject, deleteAgents, deletePermissions
\* or getMinifiedRules every pair the store covers was covered before the call
C20_DeletesGrantNothing ==
  last.op \in RemovingOps => CoveredPairs(rules) \subseteq CoveredPairs(last.pre)

\* deleteAgents took pairs from a store and left others covered
C20_Witness ==
  /\ last.op = "deleteAgents"
  /\ last.result = "ok"
  /\ CoveredPairs(rules) # CoveredPairs(last.pre)
  /\ CoveredPairs(rules) \subseteq CoveredPairs(last.pre)
  /\ CoveredPairs(rules) # {}
====
